---- MODULE Spec2Model ----
(***************************************************************************)
(* State-machine model of the djchat "server" app:                         *)
(*   - ServerListViewSet.list   (src/djchat/server/views.py)               *)
(*   - validate_icon_image_size (src/djchat/server/validators.py)          *)
(*   - validate_file_extension  (src/djchat/server/validators.py)          *)
(*                                                                         *)
(* Conventions.  Python's None / "absent" is the empty tuple <<>> and a    *)
(* present value v is the one-element tuple <<v>>.  Query-string values    *)
(* that the code parses (qty, by_serverid) and file names are sequences of *)
(* one-character strings; values the code only compares (category,         *)
(* by_user, with_num_members) are TLA+ strings.                            *)
(***************************************************************************)
EXTENDS Integers, Sequences, FiniteSets

VARIABLES
    store,      \* the Server table: a sequence of rows, in the database's order
    queryset,   \* the class attribute ServerListViewSet.queryset (shared by all requests)
    request,    \* <<>> or <<r>>: the request being served
    response,   \* <<>> or <<resp>>: what list produced for it
    upload,     \* <<>> or <<u>>: the value handed to a validator
    verdict,    \* <<>> or <<v>>: how the validator ended
    rebound     \* history: some call of list so far has assigned self.queryset

vars == <<store, queryset, request, response, upload, verdict, rebound>>

(***************************************************************************)
(* Bounds of the model.                                                    *)
(***************************************************************************)
MaxServers == 2     \* a store holds 0..MaxServers servers, with ids 1..n
MaxQty == 2         \* qty ranges over "0".."MaxQty" besides the malformed values

(***************************************************************************)
(* Python strings and int().                                               *)
(***************************************************************************)
Digits == <<"0", "1", "2", "3", "4", "5", "6", "7", "8", "9">>

IsDigit(c) == \E i \in 1..Len(Digits) : Digits[i] = c

DigitVal(c) == (CHOOSE i \in 1..Len(Digits) : Digits[i] = c) - 1

\* str(n) for 0 <= n <= 99
Str(n) == IF n < 10 THEN <<Digits[n + 1]>>
          ELSE <<Digits[(n \div 10) + 1], Digits[(n % 10) + 1]>>

\* the characters int() skips around a literal, of those a string of the model can
\* hold (code points up to U+00FF): tab, newline, vertical tab, form feed, carriage
\* return, space, U+0085 (next line) and U+00A0 (no-break space).  int() does not
\* skip \x1c-\x1f.  The Unicode spaces above U+00FF, which int() skips too, and the
\* non-ASCII decimal digits it accepts are outside the model's alphabet.
Whitespace == {" ", "\t", "\n", "\r", "\f", "", "", " "}

RECURSIVE LStrip(_)
LStrip(s) == IF s # <<>> /\ Head(s) \in Whitespace THEN LStrip(Tail(s)) ELSE s

RECURSIVE RStrip(_)
RStrip(s) ==
    IF s # <<>> /\ s[Len(s)] \in Whitespace THEN RStrip(SubSeq(s, 1, Len(s) - 1)) ELSE s

Strip(s) == RStrip(LStrip(s))

\* the digits part of an int literal: digits, single underscores between them
IsDigitRun(d) ==
    /\ d # <<>>
    /\ IsDigit(d[1])
    /\ IsDigit(d[Len(d)])
    /\ \A i \in 1..Len(d) : IsDigit(d[i]) \/ d[i] = "_"
    /\ \A i \in 1..(Len(d) - 1) : ~(d[i] = "_" /\ d[i + 1] = "_")

RECURSIVE DigitRunVal(_)
DigitRunVal(d) ==
    IF d = <<>> THEN 0
    ELSE IF d[Len(d)] = "_" THEN DigitRunVal(SubSeq(d, 1, Len(d) - 1))
    ELSE 10 * DigitRunVal(SubSeq(d, 1, Len(d) - 1)) + DigitVal(d[Len(d)])

Unsigned(s) == IF s # <<>> /\ s[1] \in {"+", "-"} THEN Tail(s) ELSE s

\* sys.get_int_max_str_digits(): the longest digit string int() converts
int_max_str_digits == 4300

DigitCount(d) == Cardinality({i \in 1..Len(d) : IsDigit(d[i])})

\* int(s) succeeds (does not raise ValueError)
IsIntLiteral(s) ==
    /\ IsDigitRun(Unsigned(Strip(s)))
    /\ DigitCount(Unsigned(Strip(s))) <= int_max_str_digits

\* int(s), for an s with IsIntLiteral(s)
IntOf(s) ==
    LET t == Strip(s)
    IN  IF t[1] = "-" THEN 0 - DigitRunVal(Unsigned(t)) ELSE DigitRunVal(Unsigned(t))

(***************************************************************************)
(* The data: users, servers, stores.                                       *)
(***************************************************************************)
UserIds == {1, 2}

\* the (category name, member set) a server of the model can have
ServerKinds ==
    { [category |-> "Gaming", member |-> {1, 2}],
      [category |-> "Gaming", member |-> {1}],
      [category |-> "Music",  member |-> {}] }

\* a store: servers with ids 1..n, in the order the database returns them
Stores ==
    UNION { { [i \in 1..n |-> [id |-> i, category |-> k[i].category, member |-> k[i].member]]
              : k \in [1..n -> ServerKinds] }
            : n \in 0..MaxServers }

(***************************************************************************)
(* Exceptions.                                                             *)
(***************************************************************************)
NoDetail == [template |-> "", by_serverid |-> <<>>]

AuthenticationFailed == [class |-> "AuthenticationFailed", detail |-> NoDetail]

ValidationError(template, arg) ==
    [class |-> "ValidationError", detail |-> [template |-> template, by_serverid |-> arg]]

\* exceptions of Python and of the ORM that no handler of the view catches
ValueError == [class |-> "ValueError", detail |-> NoDetail]
TypeError == [class |-> "TypeError", detail |-> NoDetail]
AttributeError == [class |-> "AttributeError", detail |-> NoDetail]

(***************************************************************************)
(* The ORM's QuerySet, as far as list uses it.  A queryset is lazy: rows   *)
(* is what evaluating it would return.  joined records the member the      *)
(* query's join on the membership table is restricted to (filter(member=   *)
(* ...)), which a later Count('member') reuses.  result_cache is filled    *)
(* when the queryset object itself is iterated.  A slice of a cached       *)
(* queryset is a plain Python list (kind "list").                          *)
(***************************************************************************)
QuerySet(rows, joined, sliced) ==
    [kind |-> "QuerySet", rows |-> rows, joined |-> joined, sliced |-> sliced,
     result_cache |-> <<>>]

PyList(rows) ==
    [kind |-> "list", rows |-> rows, joined |-> <<>>, sliced |-> FALSE,
     result_cache |-> <<>>]

\* Server.objects.all()
Server_objects_all(st) ==
    QuerySet([i \in 1..Len(st) |->
                 [id |-> st[i].id, category |-> st[i].category,
                  member |-> st[i].member, num_members |-> <<>>]],
             <<>>, FALSE)

\* a call's outcome: the value it returns, or the exception it raises
Returns(qs) == [value |-> qs, raised |-> <<>>]
Raises(qs, exc) == [value |-> qs, raised |-> <<exc>>]

\* exclude() written for filter()
filter_category_exclude(qs, name) ==
    LET Match(row) == row.category # name
    IN  IF qs.kind = "list" THEN Raises(qs, AttributeError)
        ELSE IF qs.sliced THEN Raises(qs, TypeError)
        ELSE Returns(QuerySet(SelectSeq(qs.rows, Match), qs.joined, FALSE))

\* queryset.filter(category__name=name)
filter_category(qs, name) ==
    LET Match(row) == row.category = name
    IN  IF qs.kind = "list" THEN Raises(qs, AttributeError)
        ELSE IF qs.sliced THEN Raises(qs, TypeError)
        ELSE Returns(QuerySet(SelectSeq(qs.rows, Match), qs.joined, FALSE))

\* queryset.filter(member=user_id)
filter_member(qs, user_id) ==
    LET Match(row) == user_id \in row.member
    IN  IF qs.kind = "list" THEN Raises(qs, AttributeError)
        ELSE IF qs.sliced THEN Raises(qs, TypeError)
        ELSE Returns(QuerySet(SelectSeq(qs.rows, Match), <<user_id>>, FALSE))

\* the membership rows of a server that the query's join keeps
JoinedMembers(qs, row) ==
    IF qs.joined = <<>> THEN row.member
    ELSE {m \in row.member : m = qs.joined[1]}

\* queryset.annotate(num_members=Count('member'))
annotate_num_members(qs) ==
    IF qs.kind = "list" THEN Raises(qs, AttributeError)
    ELSE Returns(QuerySet(
            [i \in 1..Len(qs.rows) |->
                [qs.rows[i] EXCEPT !.num_members = <<Cardinality(JoinedMembers(qs, qs.rows[i]))>>]],
            qs.joined, qs.sliced))

Min(a, b) == IF a < b THEN a ELSE b

\* queryset[:n]
slice_to(qs, n) ==
    IF qs.kind = "list"
    THEN Returns(PyList(SubSeq(qs.rows, 1,
                    IF n >= 0 THEN Min(n, Len(qs.rows))
                    ELSE IF Len(qs.rows) + n > 0 THEN Len(qs.rows) + n ELSE 0)))
    ELSE IF n < 0 THEN Raises(qs, ValueError)
    ELSE IF qs.result_cache # <<>>
         THEN Returns(PyList(SubSeq(qs.result_cache[1], 1, Min(n, Len(qs.result_cache[1])))))
    ELSE Returns(QuerySet(SubSeq(qs.rows, 1, Min(n, Len(qs.rows))), qs.joined, TRUE))

\* queryset.filter(id=value), value a string of the query
filter_id(qs, value) ==
    LET Match(row) == row.id = IntOf(value)
    IN  IF qs.kind = "list" THEN Raises(qs, AttributeError)
        ELSE IF qs.sliced THEN Raises(qs, TypeError)
        ELSE IF ~IsIntLiteral(value) THEN Raises(qs, ValueError)
        ELSE Returns(QuerySet(SelectSeq(qs.rows, Match), qs.joined, FALSE))

\* queryset.exists()
exists(qs) == qs.rows # <<>>

(***************************************************************************)
(* Requests.                                                               *)
(***************************************************************************)
\* request.query_params.get(name)
get(r, name) == r[name]

\* Python's truth value of a query value: None and "" are false
TruthyStr(v) == v # <<>> /\ v[1] # ""
TruthySeq(v) == v # <<>> /\ v[1] # <<>>

\* a comparison that ignores the case of the first letter
EqualsTrue_anycase(v) == v \in {<<"true">>, <<"True">>}

\* query_params.get(name) == "true"
EqualsTrue(v) == v = <<"true">>

\* request.user.is_authenticated (user: <<>> for the anonymous user, else <<id>>)
is_authenticated(r) == r.user # <<>>

(***************************************************************************)
(* ServerListViewSet.list, statement by statement.  A frame is the state   *)
(* of one call: what self.queryset evaluates to, whether the instance has  *)
(* its own queryset attribute (before the first assignment self.queryset   *)
(* is the class attribute), and the exception raised, if any.              *)
(***************************************************************************)
Enter(cls) == [queryset |-> cls, instance_attr |-> FALSE, raised |-> <<>>]

Raise(f, exc) == [f EXCEPT !.raised = <<exc>>]

\* self.queryset = <call>
Assign(f, outcome) ==
    IF outcome.raised # <<>> THEN Raise(f, outcome.raised[1])
    ELSE [queryset |-> outcome.value, instance_attr |-> TRUE, raised |-> <<>>]

category_step(f, r) ==
    IF f.raised # <<>> THEN f
    ELSE IF TruthyStr(get(r, "category"))
         THEN Assign(f, filter_category(f.queryset, get(r, "category")[1]))
         ELSE f

\* the filter applied only to authenticated callers, with no else branch
by_user_step_unchecked(f, r) ==
    IF f.raised # <<>> THEN f
    ELSE IF EqualsTrue(get(r, "by_user")) /\ is_authenticated(r)
         THEN Assign(f, filter_member(f.queryset, r.user[1]))
         ELSE f

by_user_step(f, r) ==
    IF f.raised # <<>> THEN f
    ELSE IF EqualsTrue(get(r, "by_user"))
         THEN IF is_authenticated(r)
              THEN Assign(f, filter_member(f.queryset, r.user[1]))
              ELSE Raise(f, AuthenticationFailed)
         ELSE f

with_num_members_step(f, r) ==
    IF f.raised # <<>> THEN f
    ELSE IF EqualsTrue(get(r, "with_num_members"))
         THEN Assign(f, annotate_num_members(f.queryset))
         ELSE f

\* the test made on int(qty) instead of on the string: qty=0 counts as absent
qty_step_falsy(f, r) ==
    IF f.raised # <<>> THEN f
    ELSE IF TruthySeq(get(r, "qty"))
         THEN IF IsIntLiteral(get(r, "qty")[1])
              THEN IF IntOf(get(r, "qty")[1]) # 0
                   THEN Assign(f, slice_to(f.queryset, IntOf(get(r, "qty")[1])))
                   ELSE f
              ELSE Raise(f, ValueError)
         ELSE f

qty_step(f, r) ==
    IF f.raised # <<>> THEN f
    ELSE IF TruthySeq(get(r, "qty"))
         THEN IF IsIntLiteral(get(r, "qty")[1])
              THEN Assign(f, slice_to(f.queryset, IntOf(get(r, "qty")[1])))
              ELSE Raise(f, ValueError)
         ELSE f

by_serverid_step(f, r) ==
    IF f.raised # <<>> THEN f
    ELSE IF TruthySeq(get(r, "by_serverid"))
         THEN IF ~is_authenticated(r) THEN Raise(f, AuthenticationFailed)
              ELSE LET by_serverid == get(r, "by_serverid")[1]
                       found == filter_id(f.queryset, by_serverid)
                   IN  IF found.raised # <<>>
                       THEN IF found.raised[1].class = "ValueError"
                            THEN Raise(f, ValidationError("Server value error", <<>>))
                            ELSE Raise(f, found.raised[1])
                       ELSE IF ~exists(found.value)
                            THEN Raise(Assign(f, found),
                                       ValidationError("Server with id {by_serverid} not found",
                                                       by_serverid))
                            ELSE Assign(f, found)
         ELSE f

\* the frame when list reaches its serializer, or raises
list_frame(cls, r) ==
    by_serverid_step(qty_step(with_num_members_step(by_user_step(category_step(Enter(cls), r), r), r), r), r)

\* ServerSerializer(self.queryset, many=True, context=...).data
ServerSerializer(qs, with_num_members) ==
    [i \in 1..Len(qs.rows) |->
        [id |-> qs.rows[i].id,
         category |-> qs.rows[i].category,
         num_members |-> IF with_num_members THEN qs.rows[i].num_members ELSE <<>>]]

\* the response the framework makes of an exception list raised
ExceptionResponse(exc) ==
    IF exc.class = "AuthenticationFailed"
    THEN [status |-> 401, kind |-> "Unauthenticated", detail |-> exc.detail,
          data |-> <<>>, exc |-> exc.class]
    ELSE IF exc.class = "ValidationError"
    THEN [status |-> 400,
          kind |-> IF exc.detail.template = "Server value error"
                   THEN "InvalidParameter" ELSE "NotFound",
          detail |-> exc.detail, data |-> <<>>, exc |-> exc.class]
    ELSE [status |-> 500, kind |-> "ServerError", detail |-> NoDetail,
          data |-> <<>>, exc |-> exc.class]

\* what the caller of list gets
list_response(cls, r) ==
    LET f == list_frame(cls, r)
    IN  IF f.raised # <<>> THEN ExceptionResponse(f.raised[1])
        ELSE [status |-> 200, kind |-> "Ok", detail |-> NoDetail,
              data |-> ServerSerializer(f.queryset, EqualsTrue(get(r, "with_num_members"))),
              exc |-> ""]

\* the assignments made on the class attribute (or on a view instance that is reused)
class_queryset_after_rebinding(cls, f) == f.queryset

\* the class attribute after the call: a new ServerListViewSet instance serves each
\* request, so the assignments to self.queryset are gone with it; iterating the
\* class attribute itself (no assignment was made) fills its result cache
class_queryset_after(cls, f) ==
    IF f.raised = <<>> /\ ~f.instance_attr /\ cls.kind = "QuerySet"
    THEN [cls EXCEPT !.result_cache = <<cls.rows>>]
    ELSE cls

(***************************************************************************)
(* The validators.                                                         *)
(***************************************************************************)
MaxIconDim == 70

\* the cased characters up to U+00FF and their lower case: A-Z and the Latin-1
\* capitals U+00C0-U+00DE (without the multiplication sign U+00D7)
UpperCase == <<"A", "B", "C", "D", "E", "F", "G", "H", "I", "J", "K", "L", "M",
               "N", "O", "P", "Q", "R", "S", "T", "U", "V", "W", "X", "Y", "Z",
               "À", "Á", "Â", "Ã", "Ä", "Å", "Æ", "Ç", "È", "É", "Ê", "Ë", "Ì",
               "Í", "Î", "Ï", "Ð", "Ñ", "Ò", "Ó", "Ô", "Õ", "Ö", "Ø", "Ù", "Ú",
               "Û", "Ü", "Ý", "Þ">>
LowerCase == <<"a", "b", "c", "d", "e", "f", "g", "h", "i", "j", "k", "l", "m",
               "n", "o", "p", "q", "r", "s", "t", "u", "v", "w", "x", "y", "z",
               "à", "á", "â", "ã", "ä", "å", "æ", "ç", "è", "é", "ê", "ë", "ì",
               "í", "î", "ï", "ð", "ñ", "ò", "ó", "ô", "õ", "ö", "ø", "ù", "ú",
               "û", "ü", "ý", "þ">>

LowerChar(c) ==
    IF \E i \in 1..Len(UpperCase) : UpperCase[i] = c
    THEN LowerCase[CHOOSE i \in 1..Len(UpperCase) : UpperCase[i] = c]
    ELSE c

\* str.lower()
lower(s) == [i \in 1..Len(s) |-> LowerChar(s[i])]

\* str.rfind(c), 1-based, 0 when c does not occur
RFind(s, c) ==
    IF \E i \in 1..Len(s) : s[i] = c
    THEN CHOOSE i \in 1..Len(s) : s[i] = c /\ \A j \in (i + 1)..Len(s) : s[j] # c
    ELSE 0

\* os.path.splitext(p)[1]: from the last dot of the last path component, unless
\* only dots precede it there
splitext_ext(p) ==
    LET sepIndex == RFind(p, "/")
        dotIndex == RFind(p, ".")
    IN  IF dotIndex > sepIndex /\ \E k \in (sepIndex + 1)..(dotIndex - 1) : p[k] # "."
        THEN SubSeq(p, dotIndex, Len(p))
        ELSE <<>>

\* the names os.path defines, of those the validators could mean
os_path_attributes == {"splitext", "split", "basename", "dirname", "join"}

valid_extensions ==
    { <<".", "j", "p", "e", "g">>, <<".", "p", "n", "g">>,
      <<".", "g", "i", "f">>, <<".", "j", "p", "g">> }

\* validate_file_extension(value): "None" when it returns, else the exception's class
validate_file_extension(value) ==
    IF "splittext" \notin os_path_attributes THEN "AttributeError"
    ELSE IF lower(splitext_ext(value.name)) \notin valid_extensions THEN "ValidationError"
    ELSE "None"

\* validate_icon_image_size(image): image is <<>> (falsy) or <<[width, height]>>
validate_icon_image_size(image) ==
    IF image # <<>>
    THEN IF image[1].width > MaxIconDim \/ image[1].height > MaxIconDim
         THEN "ValidationError"
         ELSE "None"
    ELSE "None"

(***************************************************************************)
(* Inputs.                                                                 *)
(***************************************************************************)
Opt(S) == {<<>>} \cup {<<v>> : v \in S}

CategoryValues == {"", "Gaming", "gaming"}
ByUserValues == {"true", "True", "1"}
WithNumMembersValues == {"true", "TRUE"}
QtyValues == {<<>>, <<"-", "1">>, <<"x">>, <<"", "1", "\n">>} \cup {Str(n) : n \in 0..MaxQty}
ServerIdValues == {<<>>, <<"x">>, <<"\t", "1", " ">>} \cup {Str(n) : n \in 1..(MaxServers + 1)}

Requests ==
    [category : Opt(CategoryValues),
     qty : Opt(QtyValues),
     by_user : Opt(ByUserValues),
     by_serverid : Opt(ServerIdValues),
     with_num_members : Opt(WithNumMembersValues),
     user : Opt(UserIds)]

FileNames ==
    { <<"a", ".", "p", "n", "g">>, <<"a", ".", "P", "N", "G">>,
      <<"a", ".", "j", "p", "e", "g">>, <<"a", ".", "j", "p", "g">>,
      <<"a", ".", "g", "i", "f">>, <<"a", ".", "G", "i", "f">>,
      <<"a", ".", "t", "x", "t">>, <<"a", ".", "p", "n", "g", ".", "e", "x", "e">>,
      <<"a">>, <<".", "p", "n", "g">>, <<"d", ".", "x", "/", "a", ".", "j", "p", "g">>,
      <<"a", ".", "e", "x", "e", ".", "p", "n", "g">>, <<"a", ".">>, <<>> }

IconDims == {1, MaxIconDim, MaxIconDim + 1}
Images == Opt([width : IconDims, height : IconDims])

(***************************************************************************)
(* The state machine.                                                      *)
(***************************************************************************)
Idle == request = <<>> /\ upload = <<>>

Init ==
    /\ store \in Stores
    /\ queryset = Server_objects_all(store)
    /\ request = <<>>
    /\ response = <<>>
    /\ upload = <<>>
    /\ verdict = <<>>
    /\ rebound = FALSE

\* GET /servers: one call of ServerListViewSet.list
list ==
    /\ Idle
    /\ \E r \in Requests :
        /\ request' = <<r>>
        /\ response' = <<list_response(queryset, r)>>
        /\ queryset' = class_queryset_after(queryset, list_frame(queryset, r))
        /\ rebound' = (rebound \/ list_frame(queryset, r).instance_attr)
    /\ UNCHANGED <<store, upload, verdict>>

\* a file field's validator called on an uploaded file
ValidateFileExtension ==
    /\ Idle
    /\ \E name \in FileNames :
        /\ upload' = <<[validator |-> "validate_file_extension", name |-> name, image |-> <<>>]>>
        /\ verdict' = <<validate_file_extension([name |-> name])>>
    /\ UNCHANGED <<store, queryset, request, response, rebound>>

\* the icon field's validator called on an image (or on no image)
ValidateIconImageSize ==
    /\ Idle
    /\ \E image \in Images :
        /\ upload' = <<[validator |-> "validate_icon_image_size", name |-> <<>>, image |-> image]>>
        /\ verdict' = <<validate_icon_image_size(image)>>
    /\ UNCHANGED <<store, queryset, request, response, rebound>>

\* the call has returned to its caller: the view instance and its response are gone
Return ==
    /\ ~Idle
    /\ request' = <<>>
    /\ response' = <<>>
    /\ upload' = <<>>
    /\ verdict' = <<>>
    /\ UNCHANGED <<store, queryset, rebound>>

Next == list \/ ValidateFileExtension \/ ValidateIconImageSize \/ Return

Spec == Init /\ [][Next]_vars

(***************************************************************************)
(* Properties.                                                             *)
(***************************************************************************)
Served == request # <<>> /\ response # <<>>
req == request[1]
resp == response[1]

Absent(name) == get(req, name) = <<>>

\* what the caller sees of a response (not the class of an unhandled exception)
Outcome(rs) == [status |-> rs.status, kind |-> rs.kind, detail |-> rs.detail, data |-> rs.data]

Ids(items) == [i \in 1..Len(items) |-> items[i].id]

\* the member set of the server with this id
MembersOf(st, id) == st[CHOOSE i \in 1..Len(st) : st[i].id = id].member

CategoryNames(st) == {st[i].category : i \in 1..Len(st)}

\* the frame left by the category and by-user steps (and the annotation), on the full set
NarrowedFrame(st, r) ==
    with_num_members_step(by_user_step(category_step(Enter(Server_objects_all(st)), r), r), r)

\* the frame left by the category, by-user and quantity steps, on the full set
LimitedFrame(st, r) == qty_step(NarrowedFrame(st, r), r)

\* qty is a non-negative integer
QtyIsCount(r) ==
    /\ get(r, "qty") # <<>>
    /\ IsIntLiteral(get(r, "qty")[1])
    /\ IntOf(get(r, "qty")[1]) >= 0

\* C1: a served request with with_num_members=true that does not fail returns, for
\* each server, num_members equal to the size of that server's full member set,
\* also when by_user=true has narrowed the servers to those of the caller.
C1_MemberCountIsMemberSetSize ==
    (Served /\ EqualsTrue(get(req, "with_num_members")) /\ resp.kind = "Ok")
        => \A i \in 1..Len(resp.data) :
              resp.data[i].num_members = <<Cardinality(MembersOf(store, resp.data[i].id))>>

\* C2: for an authenticated request with an integer by_serverid, the by-id step acts
\* on the working set left by the category, by-user and quantity steps: the result is
\* exactly the server with that id when it is in that set, else NotFound (400,
\* "Server with id {id} not found"), also when qty is present.
C2_ByIdOnLimitedSet ==
    (/\ Served
     /\ is_authenticated(req)
     /\ get(req, "by_serverid") # <<>>
     /\ IsIntLiteral(get(req, "by_serverid")[1])
     /\ LimitedFrame(store, req).raised = <<>>)
        => LET id == IntOf(get(req, "by_serverid")[1])
               working == LimitedFrame(store, req).queryset.rows
           IN  IF \E i \in 1..Len(working) : working[i].id = id
               THEN resp.kind = "Ok" /\ Ids(resp.data) = <<id>>
               ELSE /\ resp.kind = "NotFound"
                    /\ resp.status = 400
                    /\ resp.detail = [template |-> "Server with id {by_serverid} not found",
                                      by_serverid |-> get(req, "by_serverid")[1]]

\* C3: a request with by_user=true from an unauthenticated caller fails with
\* Unauthenticated whatever the other parameters are, malformed ones included, and
\* returns no server list.
C3_ByUserUnauthenticated ==
    (Served /\ EqualsTrue(get(req, "by_user")) /\ ~is_authenticated(req))
        => /\ resp.kind = "Unauthenticated"
           /\ resp.exc = "AuthenticationFailed"
           /\ resp.data = <<>>

C3_Witness ==
    /\ Served
    /\ EqualsTrue(get(req, "by_user"))
    /\ ~is_authenticated(req)
    /\ get(req, "qty") = << <<"x">> >>
    /\ get(req, "by_serverid") = << <<"x">> >>
    /\ EqualsTrue(get(req, "with_num_members"))
    /\ store # <<>>
    /\ resp.kind = "Unauthenticated"

\* C4: with qty=N, N a non-negative integer, and no by_serverid, the result is
\* exactly the first min(N, k) items, in their order, of the k-item working set the
\* category and by-user filters produce; qty=0 gives the empty sequence.
C4_QuantityTruncates ==
    (/\ Served
     /\ QtyIsCount(req)
     /\ Absent("by_serverid")
     /\ NarrowedFrame(store, req).raised = <<>>)
        => LET n == IntOf(get(req, "qty")[1])
               working == ServerSerializer(NarrowedFrame(store, req).queryset,
                                           EqualsTrue(get(req, "with_num_members")))
           IN  /\ resp.kind = "Ok"
               /\ Len(resp.data) = Min(n, Len(working))
               /\ \A i \in 1..Len(resp.data) : resp.data[i] = working[i]

C4_Witness ==
    /\ Served
    /\ QtyIsCount(req)
    /\ Absent("by_serverid")
    /\ NarrowedFrame(store, req).raised = <<>>
    /\ IntOf(get(req, "qty")[1]) = 0
    /\ Len(NarrowedFrame(store, req).queryset.rows) = MaxServers
    /\ resp.kind = "Ok"
    /\ resp.data = <<>>

\* the category is the only parameter of the request
OnlyCategory ==
    /\ get(req, "category") # <<>>
    /\ Absent("qty") /\ Absent("by_user") /\ Absent("by_serverid")
    /\ Absent("with_num_members")

\* C5 as stated: a category value, the empty string included, that is the category
\* name of no server, with no other filter, gives the empty sequence and no error.
C5_UnknownCategoryEmpty_Original ==
    (Served /\ OnlyCategory /\ get(req, "category")[1] \notin CategoryNames(store))
        => (resp.kind = "Ok" /\ resp.data = <<>>)

\* C5 as amended: a non-empty category value that is the category name of no server,
\* with no other filter, gives the empty sequence and no error (the empty string is
\* taken as no category at all, and every server is returned).
C5_UnknownCategoryEmpty ==
    /\ (Served /\ OnlyCategory /\ get(req, "category")[1] # ""
          /\ get(req, "category")[1] \notin CategoryNames(store))
         => (resp.kind = "Ok" /\ resp.data = <<>>)
    /\ (Served /\ OnlyCategory /\ get(req, "category")[1] = "")
         => (resp.kind = "Ok" /\ Ids(resp.data) = Ids(store))

C5_Witness ==
    /\ Served
    /\ OnlyCategory
    /\ get(req, "category")[1] = "gaming"
    /\ "Gaming" \in CategoryNames(store)
    /\ Len(store) = MaxServers
    /\ resp.kind = "Ok"
    /\ resp.data = <<>>

\* C6: on an unchanged store the outcome of a call of list depends only on the store
\* and on the call's own request: it is the outcome of the same request on the full
\* set of servers, and the class-level queryset is, after any calls, still the
\* unfiltered, unsliced query for every server.
C6_RequestScoped ==
    /\ queryset.kind = "QuerySet"
    /\ queryset.rows = Server_objects_all(store).rows
    /\ queryset.joined = <<>>
    /\ ~queryset.sliced
    /\ Served => Outcome(resp) = Outcome(list_response(Server_objects_all(store), req))

C6_Witness ==
    /\ rebound
    /\ queryset.result_cache # <<>>
    /\ Served
    /\ Absent("category") /\ Absent("by_user") /\ Absent("with_num_members")
    /\ get(req, "qty") = <<Str(1)>>
    /\ Absent("by_serverid")
    /\ Len(store) = MaxServers
    /\ resp.kind = "Ok"
    /\ Ids(resp.data) = <<1>>

\* C7: a request with by_serverid present from an unauthenticated caller fails with
\* Unauthenticated (401) whatever by_user, category, qty and with_num_members are;
\* neither NotFound nor InvalidParameter nor anything else is reported.
\* (Present is read as a non-empty value: list takes ?by_serverid= as absent.)
C7_ByIdUnauthenticated ==
    (Served /\ TruthySeq(get(req, "by_serverid")) /\ ~is_authenticated(req))
        => (resp.kind = "Unauthenticated" /\ resp.status = 401)

\* C8: by_user and with_num_members are true only for the literal "true": with any
\* other value of by_user the by-user filter is not applied (the outcome is that of
\* the request without by_user) and by_user triggers no authentication failure; with
\* any other value of with_num_members no num_members is attached.
C8_OnlyLiteralTrue ==
    /\ (Served /\ get(req, "by_user") # <<"true">>)
         => /\ Outcome(resp)
                 = Outcome(list_response(Server_objects_all(store),
                                         [req EXCEPT !.by_user = <<>>]))
            /\ ~TruthySeq(get(req, "by_serverid")) => resp.kind # "Unauthenticated"
    /\ (Served /\ get(req, "with_num_members") # <<"true">> /\ resp.kind = "Ok")
         => \A i \in 1..Len(resp.data) : resp.data[i].num_members = <<>>

C8_Witness ==
    /\ Served
    /\ get(req, "by_user") = <<"True">>
    /\ get(req, "with_num_members") = <<"TRUE">>
    /\ ~is_authenticated(req)
    /\ Absent("category") /\ Absent("qty") /\ Absent("by_serverid")
    /\ Len(store) = MaxServers
    /\ resp.kind = "Ok"
    /\ Ids(resp.data) = Ids(store)
    /\ \A i \in 1..Len(resp.data) : resp.data[i].num_members = <<>>

\* C9: validate_file_extension returns without error for a file whose lowercased
\* extension is .jpeg, .png, .gif or .jpg, and fails with ValidationError, and with
\* no other error, for any other file.
C9_ExtensionDecides ==
    (upload # <<>> /\ verdict # <<>> /\ upload[1].validator = "validate_file_extension")
        => verdict[1] = IF lower(splitext_ext(upload[1].name)) \in valid_extensions
                        THEN "None"
                        ELSE "ValidationError"

\* C10: an authenticated request whose by_serverid is not a valid integer fails with
\* InvalidParameter (400, "Server value error") whatever the other parameters are.
\* (Stated for non-empty values: list takes ?by_serverid= as absent.)
C10_BadIdInvalidParameter ==
    (/\ Served
     /\ is_authenticated(req)
     /\ TruthySeq(get(req, "by_serverid"))
     /\ ~IsIntLiteral(get(req, "by_serverid")[1]))
        => /\ resp.kind = "InvalidParameter"
           /\ resp.status = 400
           /\ resp.detail.template = "Server value error"

====
